---- MODULE Spec2Model ----
(***************************************************************************)
(* sway-xkb-switcher: per-window keyboard layout tracking (src/main.rs).   *)
(* The model couples the compositor (windows, input devices, the event     *)
(* stream) with the LayoutState struct and its handlers.  One action per   *)
(* arm of event_loop; every action runs the whole handler it dispatches to.*)
(***************************************************************************)
EXTENDS Naturals, Sequences, FiniteSets, Bags, TLC

VARIABLES
    prev_id,        \* LayoutState.prev_id      : Option<String>
    state,          \* LayoutState.state        : HashMap<String, HashMap<String, i32>>
    default_lang,   \* LayoutState.default_lang : Option<String>
    pc,             \* position of the process: "loop", "panic", "exit"
    active,         \* compositor: device identifier -> xkb_active_layout_index
    wins,           \* compositor: window id -> Option<[app_id, name]>
    focused,        \* compositor: Option<window id holding input focus>
    cmds,           \* bag of the command texts run_command got in the last step
    failed,         \* device identifiers whose command returned Err in the last step
    last,           \* the last step: change kind, derived key, branch of _set_lang
    hist,           \* per key: what happened to it last ("departed" keeps the layouts)
    orphans         \* Option<keys in the cache that a title change moved a window away
                    \* from>; None in the behaviours that do not observe them

vars == <<prev_id, state, default_lang, pc, active, wins, focused, cmds, failed, last, hist,
          orphans>>

\* ---------------------------------------------------------------- Option<T>
None == <<>>
Some(x) == <<x>>
IsSome(o) == o # None
Unwrap(o) == o[1]

\* ---------------------------------------------------------------- bounds
\* longest window title the compositor reports (titles are strings of TitleChars)
MaxTitleLen == 1
TitleChars == {"2"}
WinIds == {1, 12}
\* the application a window id belongs to: window 1 is a browser, window 12 a terminal
AppsOf(w) == IF w = 1 THEN {Some("ff")} ELSE {Some("term")}
LangNames == {"us", "ru"}

\* ---------------------------------------------------------------- configuration
\* -T ff : the application ids treated as tabbed
tabbed == <<"ff">>

\* The input devices get_inputs() lists, in the order the compositor lists them.
InputList ==
    << [identifier |-> "D", input_type |-> "keyboard", xkb_layout_names |-> <<"de", "us", "fr">>],
       [identifier |-> "E", input_type |-> "keyboard", xkb_layout_names |-> <<"de">>],
       [identifier |-> "P", input_type |-> "pointer",  xkb_layout_names |-> <<"us">>] >>

DeviceIds == {InputList[i].identifier : i \in 1..Len(InputList)}
Device(d) == CHOOSE r \in {InputList[i] : i \in 1..Len(InputList)} : r.identifier = d
Keyboards == {d \in DeviceIds : Device(d).input_type = "keyboard"}

\* ---------------------------------------------------------------- strings
Digits == <<"0", "1", "2", "3", "4", "5", "6", "7", "8", "9">>

\* i64::to_string of a non-negative id: its decimal digits, most significant first
RECURSIVE to_string(_)
to_string(n) ==
    IF n < 10 THEN <<Digits[n + 1]>>
    ELSE to_string(n \div 10) \o <<Digits[(n % 10) + 1]>>

Contains(seq, x) == \E i \in 1..Len(seq) : seq[i] = x

Titles == UNION {[1..n -> TitleChars] : n \in 1..MaxTitleLen}
Names == {None} \cup {Some(t) : t \in Titles}
Containers == {c \in [id : WinIds, app_id : {None, Some("ff"), Some("term")}, name : Names] :
                 c.app_id \in AppsOf(c.id)}

\* ---------------------------------------------------------------- make_map_key
\* variant: the title is appended for every application id, tabbed or not
make_map_keyAnyApp(container) ==
    LET key == to_string(container.id) IN
    IF IsSome(container.app_id) /\ IsSome(container.name)
    THEN key \o Unwrap(container.name)
    ELSE key

make_map_key(container) ==
    LET key == to_string(container.id) IN
    IF IsSome(container.app_id) /\ Contains(tabbed, Unwrap(container.app_id))
                                /\ IsSome(container.name)
    THEN key \o Unwrap(container.name)
    ELSE key

Keys == {make_map_key(c) : c \in Containers}

\* ---------------------------------------------------------------- compositor side
\* Connection::get_inputs(): every device with its current active layout index.
\* fault = "noidx" is a reply in which keyboard E carries no active layout index.
get_inputs(act, fault) ==
    [i \in 1..Len(InputList) |->
        [identifier |-> InputList[i].identifier,
         input_type |-> InputList[i].input_type,
         xkb_layout_names |-> InputList[i].xkb_layout_names,
         xkb_active_layout_index |->
            IF fault = "noidx" /\ InputList[i].identifier = "E"
            THEN None ELSE act[InputList[i].identifier]]]

\* the text handed to run_command: format!("input {input_id} xkb_switch_layout {lo_idx}")
FormatCmd(input_id, lo_idx) == <<"input", input_id, "xkb_switch_layout", to_string(lo_idx)>>

\* the compositor reads the index back from the command text
RECURSIVE ParseIdx(_)
ParseIdx(txt) ==
    IF Len(txt) = 0 THEN 0
    ELSE 10 * ParseIdx(SubSeq(txt, 1, Len(txt) - 1))
         + ((CHOOSE i \in 1..10 : Digits[i] = txt[Len(txt)]) - 1)

\* Connection::run_command(text): the compositor switches the device when the
\* command succeeds; a command to a device in F returns Err and changes nothing.
run_command(act, cmd, F) ==
    LET d == cmd[2]
        idx == ParseIdx(cmd[4]) IN
    IF d \notin F /\ d \in Keyboards /\ idx < Len(Device(d).xkb_layout_names)
    THEN [act EXCEPT ![d] = Some(idx)]
    ELSE act

\* variant: the first Err ends the pass (the result propagated with `?`)
RECURSIVE IssueUntilErr(_, _, _)
IssueUntilErr(act, cmdseq, F) ==
    IF cmdseq = <<>> THEN [active |-> act, issued |-> <<>>]
    ELSE IF Head(cmdseq)[2] \in F THEN [active |-> act, issued |-> <<Head(cmdseq)>>]
    ELSE LET rest == IssueUntilErr(run_command(act, Head(cmdseq), F), Tail(cmdseq), F) IN
         [active |-> rest.active, issued |-> <<Head(cmdseq)>> \o rest.issued]

\* `let _ = run_command(..)` in a loop: every command is issued, its result dropped
RECURSIVE IssueAll(_, _, _)
IssueAll(act, cmdseq, F) ==
    IF cmdseq = <<>> THEN [active |-> act, issued |-> <<>>]
    ELSE LET rest == IssueAll(run_command(act, Head(cmdseq), F), Tail(cmdseq), F) IN
         [active |-> rest.active, issued |-> <<Head(cmdseq)>> \o rest.issued]

RECURSIVE SeqToBag(_)
SeqToBag(seq) ==
    IF seq = <<>> THEN EmptyBag ELSE SetToBag({Head(seq)}) (+) SeqToBag(Tail(seq))

CmdDevices(cmdseq) == {cmdseq[i][2] : i \in 1..Len(cmdseq)}

\* ---------------------------------------------------------------- _get_lang
_get_lang_panics(inputs) ==
    \E i \in 1..Len(inputs) :                           \* .expect(..)
        inputs[i].input_type = "keyboard" /\ inputs[i].xkb_active_layout_index = None

_get_lang(inputs) ==
    LET kb == {i \in 1..Len(inputs) : inputs[i].input_type = "keyboard"} IN
    [d \in {inputs[i].identifier : i \in kb} |->
        Unwrap((CHOOSE r \in {inputs[i] : i \in kb} : r.identifier = d).xkb_active_layout_index)]

\* ---------------------------------------------------------------- _set_lang
\* The iteration order of a HashMap with key set S is unspecified.  The commands of
\* one restore pass go to distinct devices, so neither the bag of commands issued nor
\* the layouts that result depend on it: the model iterates in one of the orders.
RECURSIVE IterOrder(_)
IterOrder(S) ==
    IF S = {} THEN <<>>
    ELSE LET x == CHOOSE y \in S : TRUE IN <<x>> \o IterOrder(S \ {x})

\* variant: a stored index 0 is taken for "nothing stored" and skipped
RestoreCmdsSkipZero(map) ==
    LET ord == IterOrder({d \in DOMAIN map : map[d] # 0}) IN
    [i \in 1..Len(ord) |-> FormatCmd(ord[i], map[ord[i]])]

\* lines 41-45: one command per (input_id, lo_idx) of the stored map
RestoreCmds(map) ==
    LET ord == IterOrder(DOMAIN map) IN
    [i \in 1..Len(ord) |-> FormatCmd(ord[i], map[ord[i]])]

\* variant: the position in the list counted from 1
InputCmdsOneBased(input, lang) ==
    LET names == input.xkb_layout_names
        hit == SelectSeq([i \in 1..Len(names) |-> i], LAMBDA i : names[i] = lang) IN
    [j \in 1..Len(hit) |-> FormatCmd(input.identifier, hit[j])]

\* lines 49-56: one command per layout name of the input equal to lang
InputCmds(input, lang) ==
    LET names == input.xkb_layout_names
        hit == SelectSeq([i \in 1..Len(names) |-> i], LAMBDA i : names[i] = lang) IN
    [j \in 1..Len(hit) |-> FormatCmd(input.identifier, hit[j] - 1)]

\* variant: a device whose list lacks the default name is switched to its first layout
RECURSIVE DefaultCmdsOrFirst(_, _)
DefaultCmdsOrFirst(inputs, lang) ==
    IF inputs = <<>> THEN <<>>
    ELSE (IF InputCmds(Head(inputs), lang) = <<>>
          THEN <<FormatCmd(Head(inputs).identifier, 0)>>
          ELSE InputCmds(Head(inputs), lang)) \o DefaultCmdsOrFirst(Tail(inputs), lang)

RECURSIVE DefaultCmds(_, _)
DefaultCmds(inputs, lang) ==
    IF inputs = <<>> THEN <<>>
    ELSE InputCmds(Head(inputs), lang) \o DefaultCmds(Tail(inputs), lang)

\* which branch _set_lang takes
SetLangPath(st, key) ==
    IF key \in DOMAIN st THEN "restore"
    ELSE IF IsSome(default_lang) THEN "default" ELSE "nodefault"

\* variant: a configured default goes before the stored entry
_set_langDefaultFirst(st, key, act) ==
    IF IsSome(default_lang)
    THEN DefaultCmds(get_inputs(act, "ok"), Unwrap(default_lang))
    ELSE IF key \in DOMAIN st THEN RestoreCmds(st[key]) ELSE <<>>

\* the commands _set_lang hands to run_command, in order
_set_lang(st, key, act) ==
    IF key \in DOMAIN st THEN RestoreCmds(st[key])
    ELSE IF IsSome(default_lang)
         THEN DefaultCmds(get_inputs(act, "ok"), Unwrap(default_lang))
         ELSE <<>>

\* ---------------------------------------------------------------- on_focus
\* variant: an entry that exists is kept (entry().or_insert instead of insert)
SaveIfAbsent(prev, st, act) ==
    IF IsSome(prev) /\ Unwrap(prev) \notin DOMAIN st
    THEN LET layoutmap == _get_lang(get_inputs(act, "ok")) IN
         [k \in DOMAIN st \cup {Unwrap(prev)} |->
            IF k = Unwrap(prev) THEN layoutmap ELSE st[k]]
    ELSE st

\* lines 22-25: the snapshot of the keyboards goes under the previous key
Save(prev, st, act) ==
    IF IsSome(prev)
    THEN LET layoutmap == _get_lang(get_inputs(act, "ok")) IN
         [k \in DOMAIN st \cup {Unwrap(prev)} |->
            IF k = Unwrap(prev) THEN layoutmap ELSE st[k]]
    ELSE st

\* variant: the layouts of the new key are set before the snapshot is taken
OnFocusRestoreFirst(key, prev, st, act, F) ==
    LET done == IssueAll(act, _set_lang(st, key, act), F)
        saved == Save(prev, st, done.active) IN
    [state |-> saved, prev_id |-> Some(key), active |-> done.active, cmds |-> done.issued]

\* variant: the snapshot goes under the new key (the shadowed `key` of line 22 lost)
OnFocusSaveUnderNew(key, prev, st, act, F) ==
    LET saved == Save(IF IsSome(prev) THEN Some(key) ELSE prev, st, act)
        done == IssueAll(act, _set_lang(saved, key, act), F) IN
    [state |-> saved, prev_id |-> Some(key), active |-> done.active, cmds |-> done.issued]

\* variant: the key is recorded only when the cache had an entry for it
OnFocusKeepPrevOnMiss(key, prev, st, act, F) ==
    LET saved == Save(prev, st, act)
        done == IssueAll(act, _set_lang(saved, key, act), F) IN
    [state |-> saved, prev_id |-> IF key \in DOMAIN saved THEN Some(key) ELSE prev,
     active |-> done.active, cmds |-> done.issued]

\* on_focus without a panic: save, then restore or default, then record the key
OnFocusResult(key, prev, st, act, F) ==
    LET saved == Save(prev, st, act)
        done == IssueAll(act, _set_lang(saved, key, act), F) IN
    [state |-> saved, prev_id |-> Some(key), active |-> done.active, cmds |-> done.issued]

\* Once the process has ended the compositor is no longer observed: its variables
\* and the history of keys take their initial values.
NoWins == [w \in WinIds |-> None]
InitActive == [d \in DeviceIds |-> IF d \in Keyboards THEN Some(0) ELSE None]
InitHist == [k \in Keys |-> [tag |-> "never", L |-> <<>>]]

\* the compositor's windows and focus after an event, while the process runs
Compositor(w2, f2) ==
    /\ wins' = IF pc' = "loop" THEN w2 ELSE NoWins
    /\ focused' = IF pc' = "loop" THEN f2 ELSE None

\* the keys left behind by title changes, kept while the process runs
Tracked == IF IsSome(orphans) THEN Unwrap(orphans) ELSE {}
Orphans(o2) ==
    orphans' = IF IsSome(orphans) THEN Some(IF pc' = "loop" THEN o2 ELSE {}) ELSE None

\* a panic inside on_focus with the cache as st
Panic(st) ==
    /\ pc' = "panic"
    /\ state' = st
    /\ cmds' = EmptyBag
    /\ failed' = {}
    /\ active' = InitActive
    /\ hist' = InitHist
    /\ UNCHANGED <<prev_id, default_lang>>

HistFocus(key) ==
    [k \in Keys |->
        IF k = key THEN [tag |-> "cur", L |-> <<>>]
        ELSE IF prev_id = Some(k)
             THEN [tag |-> "departed", L |-> [d \in Keyboards |-> Unwrap(active[d])]]
             ELSE hist[k]]

FocusLabel(key, path) == [op |-> "on_focus", key |-> key, path |-> path, was |-> hist[key].tag]

\* variant: a keyboard that reports no active layout index is left out of the
\* snapshot (if let Some(..) instead of .expect(..)) and on_focus carries on
on_focusSkipDevice(key) ==
    LET inputs == get_inputs(active, "noidx")
        kb == {i \in 1..Len(inputs) : /\ inputs[i].input_type = "keyboard"
                                      /\ IsSome(inputs[i].xkb_active_layout_index)}
        layoutmap == [d \in {inputs[i].identifier : i \in kb} |-> Unwrap(active[d])]
        saved == IF IsSome(prev_id)
                 THEN [k \in DOMAIN state \cup {Unwrap(prev_id)} |->
                          IF k = Unwrap(prev_id) THEN layoutmap ELSE state[k]]
                 ELSE state
        done == IssueAll(active, _set_lang(saved, key, active), {}) IN
    /\ state' = saved
    /\ prev_id' = Some(key)
    /\ active' = done.active
    /\ cmds' = SeqToBag(done.issued)
    /\ failed' = {}
    /\ hist' = HistFocus(key)
    /\ last' = FocusLabel(key, SetLangPath(saved, key))
    /\ UNCHANGED <<default_lang, pc>>

on_focus(key) ==
    LET saved == Save(prev_id, state, active)
        path == SetLangPath(saved, key) IN
    \/ /\ IsSome(prev_id)                      \* _get_lang panics: nothing was stored
       /\ \E fault \in {"err", "noidx"} :
             fault = "err" \/ _get_lang_panics(get_inputs(active, fault))
       /\ Panic(state)
       /\ last' = FocusLabel(key, "panic")
    \/ /\ path = "default"                     \* get_inputs().unwrap() in _set_lang
       /\ Panic(saved)
       /\ last' = FocusLabel(key, "panic")
    \/ \E F \in SUBSET CmdDevices(_set_lang(saved, key, active)) :
         \E r \in {OnFocusResult(key, prev_id, state, active, F)} :
            /\ state' = r.state
            /\ prev_id' = r.prev_id
            /\ active' = r.active
            /\ cmds' = SeqToBag(r.cmds)
            /\ failed' = F \cap CmdDevices(r.cmds)
            /\ hist' = HistFocus(key)
            /\ last' = FocusLabel(key, SetLangPath(r.state, key))
            /\ UNCHANGED <<default_lang, pc>>

\* ---------------------------------------------------------------- on_close
\* variant: the entry is left in the cache
CloseStateKeep(st, key) == st

\* variant: closing evicts every key that starts the closed key (the id and the id
\* with a shorter title) as well
CloseStateByPrefix(st, key) ==
    [k \in {j \in DOMAIN st : ~(Len(j) <= Len(key) /\ SubSeq(key, 1, Len(j)) = j)} |-> st[k]]

\* line 33
CloseState(st, key) == [k \in DOMAIN st \ {key} |-> st[k]]
\* variant: the focused key is cleared whatever window closed
ClosePrevAlways(prev, key) == None

\* lines 34-36
ClosePrev(prev, key) == IF prev = Some(key) THEN None ELSE prev

OnCloseResult(key, prev, st) == [state |-> CloseState(st, key), prev_id |-> ClosePrev(prev, key)]

\* variant: closing a window also applies the layouts of the closed key (the default
\* ones, its entry being gone)
on_closeResetLayout(key) ==
    LET done == IssueAll(active, _set_lang(CloseState(state, key), key, active), {}) IN
    /\ state' = OnCloseResult(key, prev_id, state).state
    /\ prev_id' = OnCloseResult(key, prev_id, state).prev_id
    /\ hist' = [hist EXCEPT ![key] = [tag |-> "closed", L |-> <<>>]]
    /\ cmds' = SeqToBag(done.issued)
    /\ failed' = {}
    /\ active' = done.active
    /\ last' = [op |-> "on_close", key |-> key, path |-> "none", was |-> hist[key].tag]
    /\ UNCHANGED <<default_lang, pc>>

on_close(key) ==
    /\ state' = OnCloseResult(key, prev_id, state).state
    /\ prev_id' = OnCloseResult(key, prev_id, state).prev_id
    /\ hist' = [hist EXCEPT ![key] = [tag |-> "closed", L |-> <<>>]]
    /\ cmds' = EmptyBag
    /\ failed' = {}
    /\ last' = [op |-> "on_close", key |-> key, path |-> "none", was |-> hist[key].tag]
    /\ UNCHANGED <<default_lang, pc, active>>

\* ---------------------------------------------------------------- event_loop
Live(w) == IsSome(wins[w])
Container(w, win) == [id |-> w, app_id |-> win.app_id, name |-> win.name]

\* WindowChange::Focus
EvFocus(w) ==
    /\ pc = "loop" /\ Live(w) /\ focused # Some(w)
    /\ on_focus(make_map_key(Container(w, Unwrap(wins[w]))))
    /\ Compositor(wins, Some(w))
    /\ Orphans(Tracked)

\* WindowChange::Title, for any live window
EvTitle(w, t) ==
    /\ pc = "loop" /\ Live(w) /\ Unwrap(wins[w]).name # Some(t)
    /\ LET win == [Unwrap(wins[w]) EXCEPT !.name = Some(t)]
           old == make_map_key(Container(w, Unwrap(wins[w])))
           new == make_map_key(Container(w, win)) IN
       /\ on_focus(new)
       /\ Compositor([wins EXCEPT ![w] = Some(win)], focused)
       /\ Orphans(IF old # new /\ old \in DOMAIN state' THEN Tracked \cup {old} ELSE Tracked)

\* WindowChange::Close
EvClose(w) ==
    /\ pc = "loop" /\ Live(w)
    /\ wins' = [wins EXCEPT ![w] = None]
    /\ focused' = IF focused = Some(w) THEN None ELSE focused
    /\ on_close(make_map_key(Container(w, Unwrap(wins[w]))))
    /\ Orphans(Tracked \ {make_map_key(Container(w, Unwrap(wins[w])))})

Ignore ==
    /\ cmds' = EmptyBag
    /\ failed' = {}
    /\ last' = [op |-> "ignored", key |-> None, path |-> "none", was |-> "none"]
    /\ UNCHANGED <<prev_id, state, default_lang, pc, active, hist>>

\* variant: a new window is handled like a focus gain
EvNewAsFocus(w, app, name) ==
    /\ pc = "loop" /\ ~Live(w)
    /\ on_focus(make_map_key(Container(w, [app_id |-> app, name |-> name])))
    /\ Compositor([wins EXCEPT ![w] = Some([app_id |-> app, name |-> name])], focused)
    /\ Orphans(Tracked)

\* WindowChange::New: a window opens; the arm `_ => continue`
EvNew(w, app, name) ==
    /\ pc = "loop" /\ ~Live(w)
    /\ wins' = [wins EXCEPT ![w] = Some([app_id |-> app, name |-> name])]
    /\ UNCHANGED <<focused, orphans>>
    /\ Ignore

\* any other change kind of a live window (move, floating, urgent, ...)
EvOther ==
    /\ pc = "loop" /\ \E w \in WinIds : Live(w)
    /\ UNCHANGED <<wins, focused, orphans>>
    /\ Ignore

\* events.next() returns None: the loop ends and start() returns
StreamEnd ==
    /\ pc = "loop"
    /\ pc' = "exit"
    /\ last' = [op |-> "end", key |-> None, path |-> "none", was |-> "none"]
    /\ Compositor(wins, focused)
    /\ Orphans(Tracked)
    /\ active' = InitActive
    /\ hist' = InitHist
    /\ cmds' = EmptyBag
    /\ failed' = {}
    /\ UNCHANGED <<prev_id, state, default_lang>>

\* event.unwrap() on an event that failed to decode
StreamErr ==
    /\ pc = "loop"
    /\ pc' = "panic"
    /\ last' = [op |-> "err", key |-> None, path |-> "panic", was |-> "none"]
    /\ Compositor(wins, focused)
    /\ Orphans(Tracked)
    /\ active' = InitActive
    /\ hist' = InitHist
    /\ cmds' = EmptyBag
    /\ failed' = {}
    /\ UNCHANGED <<prev_id, state, default_lang>>

\* the user (or another client) switches the layout of a keyboard
UserSwitch(d, i) ==
    /\ pc = "loop" /\ active[d] # Some(i)
    /\ active' = [active EXCEPT ![d] = Some(i)]
    /\ cmds' = EmptyBag
    /\ failed' = {}
    /\ last' = [op |-> "ignored", key |-> None, path |-> "none", was |-> "none"]
    /\ UNCHANGED <<prev_id, state, default_lang, pc, wins, focused, hist, orphans>>

\* ---------------------------------------------------------------- start
Init ==
    /\ prev_id = None
    /\ state = <<>>
    /\ default_lang \in {None} \cup {Some(l) : l \in LangNames}
    /\ pc = "loop"
    /\ active = InitActive
    /\ wins = NoWins
    /\ focused = None
    /\ cmds = EmptyBag
    /\ failed = {}
    /\ last = [op |-> "ignored", key |-> None, path |-> "none", was |-> "none"]
    /\ hist = InitHist
    /\ orphans = None

Next ==
    \/ \E w \in WinIds : EvFocus(w)
    \/ \E w \in WinIds, t \in Titles : EvTitle(w, t)
    \/ \E w \in WinIds : EvClose(w)
    \/ \E w \in WinIds, app \in {None, Some("ff"), Some("term")}, name \in Names :
          app \in AppsOf(w) /\ EvNew(w, app, name)
    \/ EvOther
    \/ StreamEnd
    \/ StreamErr
    \/ \E d \in Keyboards :
          \E i \in 0..(Len(Device(d).xkb_layout_names) - 1) : UserSwitch(d, i)

Spec == Init /\ [][Next]_vars

\* ---------------------------------------------------------------- windows open at start
\* The compositor already has windows when the program starts, and a window may have
\* no application id (app_id is null for an X11 window).  Under SpecKey the windows
\* are the ones open at the start, no default layout is configured and nobody
\* switches layouts: the window events are the only thing that happens.
AppsAtStart(w) == AppsOf(w) \cup {None}

InitKey ==
    /\ prev_id = None
    /\ state = <<>>
    /\ default_lang = None
    /\ pc = "loop"
    /\ active = InitActive
    /\ wins \in [WinIds -> {None} \cup {Some(n) : n \in [app_id : {None, Some("ff"), Some("term")},
                                                       name : Names]}]
    /\ \A w \in WinIds : IsSome(wins[w]) => Unwrap(wins[w]).app_id \in AppsAtStart(w)
    /\ focused = None
    /\ cmds = EmptyBag
    /\ failed = {}
    /\ last = [op |-> "ignored", key |-> None, path |-> "none", was |-> "none"]
    /\ hist = InitHist
    /\ orphans = None

NextKey ==
    \/ \E w \in WinIds : EvFocus(w)
    \/ \E w \in WinIds, t \in Titles : EvTitle(w, t)
    \/ \E w \in WinIds : EvClose(w)

SpecKey == InitKey /\ [][NextKey]_vars

\* ---------------------------------------------------------------- observing orphans
\* Under SpecOrphan the keys left behind by title changes are observed.  No default
\* layout is configured and nobody switches layouts: windows open, gain focus, change
\* title and close.
InitOrphan ==
    /\ prev_id = None
    /\ state = <<>>
    /\ default_lang = None
    /\ pc = "loop"
    /\ active = InitActive
    /\ wins = NoWins
    /\ focused = None
    /\ cmds = EmptyBag
    /\ failed = {}
    /\ last = [op |-> "ignored", key |-> None, path |-> "none", was |-> "none"]
    /\ hist = InitHist
    /\ orphans = Some({})

NextOrphan ==
    \/ \E w \in WinIds : EvFocus(w)
    \/ \E w \in WinIds, t \in Titles : EvTitle(w, t)
    \/ \E w \in WinIds : EvClose(w)
    \/ \E w \in WinIds, app \in {None, Some("ff"), Some("term")}, name \in Names :
          app \in AppsOf(w) /\ EvNew(w, app, name)

SpecOrphan == InitOrphan /\ [][NextOrphan]_vars


\* what the claims read off a state
Completed == last.op = "on_focus" /\ pc = "loop"        \* an on_focus has just returned
IdxText(i) == <<Digits[i + 1]>>                         \* a layout index below 10 as text
SwitchText(d, i) == <<"input", d, "xkb_switch_layout", IdxText(i)>>
KeyboardLayouts(act) == [d \in Keyboards |-> Unwrap(act[d])]
\* the bag holding each command of the set once
OnceEach(S) == [c \in S |-> 1]
\* (device, index) pairs of the layout names equal to lang, over every input device
Matches(lang) ==
    UNION {{<<d, i>> : i \in {j \in 0..(Len(Device(d).xkb_layout_names) - 1) :
                                  Device(d).xkb_layout_names[j + 1] = lang}} : d \in DeviceIds}

\* C1: round-trip restore.  When focus left key k with the keyboards at layouts L
\* (hist[k] = departed, L) and the next event for k is an on_focus(k) that returns,
\* that on_focus issues a switch to L[d] for every keyboard d recorded at departure,
\* and when no command fails every such keyboard is at L[d] again.
C1_RoundTripRestore ==
    [][\A k \in Keys :
          (hist[k].tag = "departed" /\ last'.op = "on_focus" /\ last'.key = k /\ pc' = "loop")
          => \A d \in DOMAIN hist[k].L :
                /\ CopiesIn(SwitchText(d, hist[k].L[d]), cmds') = 1
                /\ failed' = {} => active'[d] = Some(hist[k].L[d])]_vars

\* focus came back to a departed key, every command succeeded, and the restore moved
\* keyboard D away from the layout the window just left had
C1_Witness ==
    /\ Completed /\ last.was = "departed" /\ failed = {}
    /\ \E j \in Keys : /\ hist[j].tag = "departed"
                       /\ hist[j].L["D"] # Unwrap(active["D"])
                       /\ hist[j].L["D"] # 0 /\ Unwrap(active["D"]) # 0

\* C2: save-before-restore.  An on_focus that starts with previous key p and returns
\* leaves under p exactly the layouts the keyboards had when it started.
C2_SaveBeforeRestore ==
    [][(last'.op = "on_focus" /\ pc' = "loop" /\ IsSome(prev_id))
          => /\ Unwrap(prev_id) \in DOMAIN state'
             /\ state'[Unwrap(prev_id)] = KeyboardLayouts(active)]_vars

\* the restore changed keyboard D, and the entry of the key just left differs from
\* the layouts now active
C2_Witness ==
    /\ Completed /\ last.path = "restore" /\ failed = {}
    /\ \E p \in DOMAIN state :
          /\ p # last.key /\ hist[p].tag = "departed" /\ hist[p].L = state[p]
          /\ state[p]["D"] # Unwrap(active["D"])
          /\ state[last.key]["D"] = Unwrap(active["D"])

\* C3: restore from cache.  When on_focus(k) found an entry for k, the commands it
\* issued are one `input <device> xkb_switch_layout <index>` per pair of the entry
\* and nothing else.
C3_RestoreExactly ==
    (Completed /\ last.key \in DOMAIN state)
        => cmds = OnceEach({SwitchText(d, state[last.key][d]) : d \in DOMAIN state[last.key]})

C3_Witness ==
    /\ Completed /\ last.path = "restore"
    /\ DOMAIN state[last.key] = {"D", "E"}
    /\ state[last.key]["D"] = 2
    /\ BagCardinality(cmds) = 2

\* C4: default fallback.  When on_focus(k) found no entry for k: with a default name
\* configured the commands are one per (device, index) whose layout name equals the
\* name, a device without such a name gets none and a switched keyboard ends at the
\* matching index; with no default, or no matching name, no command is issued and
\* every device keeps its layout.
C4_DefaultFallback ==
    [][(last'.op = "on_focus" /\ pc' = "loop" /\ last'.key \notin DOMAIN state')
          => LET want == IF IsSome(default_lang) THEN Matches(Unwrap(default_lang)) ELSE {} IN
             /\ cmds' = OnceEach({SwitchText(m[1], m[2]) : m \in want})
             /\ \A m \in want :
                   (m[1] \in Keyboards /\ m[1] \notin failed') => active'[m[1]] = Some(m[2])
             /\ \A d \in DeviceIds : (\A m \in want : m[1] # d) => active'[d] = active[d]]_vars

\* default "us": keyboard D was switched to index 1, keyboard E got no command
C4_Witness ==
    /\ Completed /\ last.path = "default" /\ default_lang = Some("us")
    /\ active["D"] = Some(1) /\ "D" \notin failed
    /\ CopiesIn(SwitchText("D", 1), cmds) = 1
    /\ "E" \notin {c[2] : c \in BagToSet(cmds)}

\* C5 as stated: in every reachable state the cache holds no entry under the
\* currently-focused key.
C5_NoEntryForFocused == IsSome(prev_id) => Unwrap(prev_id) \notin DOMAIN state

\* C5 as amended: an entry is created or changed only by an on_focus that starts
\* while its key is the focused key (focus departs from it, or an event re-derives
\* the same key); it is removed only by on_close of its key, so it stays in the
\* cache when focus returns to the key.
C5_WrittenOnlyFromFocused ==
    [][\A k \in Keys :
          /\ (k \in DOMAIN state' /\ (k \notin DOMAIN state \/ state'[k] # state[k]))
                => (prev_id = Some(k) /\ last'.op = "on_focus")
          /\ (k \in DOMAIN state /\ k \notin DOMAIN state')
                => (last'.op = "on_close" /\ last'.key = k)]_vars

\* focus has returned to a key that was cached at departure: its entry is still there
C5_Witness ==
    /\ Completed /\ last.was = "departed"
    /\ prev_id = Some(last.key) /\ last.key \in DOMAIN state

\* C6 as stated: two live windows have the same key only if they are the same window.
C6_KeyInjective ==
    \A w1, w2 \in WinIds :
        (/\ Live(w1) /\ Live(w2)
         /\ make_map_key(Container(w1, Unwrap(wins[w1])))
                = make_map_key(Container(w2, Unwrap(wins[w2]))))
        => w1 = w2

\* C7: on_close(k) leaves no entry for k, clears the focused key exactly when it
\* was k, leaves the cache alone when k had no entry, and a second on_close(k) on
\* the state it left changes neither the cache nor the focused key.
C7_CloseIdempotent ==
    [][last'.op = "on_close"
          => LET k == last'.key IN
             /\ k \notin DOMAIN state'
             /\ prev_id' = IF prev_id = Some(k) THEN None ELSE prev_id
             /\ k \notin DOMAIN state => state' = state
             /\ OnCloseResult(k, prev_id', state') = [state |-> state', prev_id |-> prev_id']]_vars

\* the focused window closed while another window had an entry
C7_Witness ==
    /\ last.op = "on_close" /\ last.was = "cur" /\ prev_id = None
    /\ last.key \notin DOMAIN state /\ DOMAIN state # {}

\* C8: while a key is closed (on_close(k) was its last event) the cache has no entry
\* for it and it is not the focused key, and the next on_focus(k) takes the not-found
\* path: k gets no entry and only the default-layout commands are issued.
C8_ClosedIsFresh ==
    /\ \A k \in Keys : hist[k].tag = "closed" => (k \notin DOMAIN state /\ prev_id # Some(k))
    /\ (Completed /\ last.was = "closed")
          => /\ last.key \notin DOMAIN state
             /\ last.path \in {"default", "nodefault"}
             /\ cmds = OnceEach({SwitchText(m[1], m[2]) :
                           m \in IF IsSome(default_lang) THEN Matches(Unwrap(default_lang)) ELSE {}})

\* a closed key got focus again while keyboard D was not at index 0, and no command
\* was issued for it
C8_Witness ==
    /\ Completed /\ last.was = "closed" /\ default_lang = None
    /\ active["D"] = Some(2) /\ cmds = EmptyBag /\ DOMAIN state # {}

\* C9: a command that fails is ignored.  Whatever commands fail, on_focus returns,
\* the focused key is the new key, the cache is the old cache with the snapshot under
\* the previous key, every command of the pass is issued exactly once, a keyboard
\* whose command succeeded is at its target and one whose command failed is unchanged.
C9_FailureIgnored ==
    [][(last'.op = "on_focus" /\ last'.path # "panic")
          => LET k == last'.key
                 want == IF k \in DOMAIN state'
                         THEN {<<d, state'[k][d]>> : d \in DOMAIN state'[k]}
                         ELSE IF IsSome(default_lang) THEN Matches(Unwrap(default_lang))
                         ELSE {} IN
             /\ pc' = "loop"
             /\ prev_id' = Some(k)
             /\ DOMAIN state' = DOMAIN state \cup {p \in Keys : prev_id = Some(p)}
             /\ \A p \in DOMAIN state' :
                   state'[p] = IF prev_id = Some(p) THEN KeyboardLayouts(active) ELSE state[p]
             /\ cmds' = OnceEach({SwitchText(m[1], m[2]) : m \in want})
             /\ failed' \subseteq {m[1] : m \in want}
             /\ \A m \in want :
                   m[1] \in Keyboards =>
                      active'[m[1]] = IF m[1] \in failed' THEN active[m[1]] ELSE Some(m[2])]_vars

\* the command for keyboard D failed in a restore pass: D kept its layout, which is
\* not the stored one, and the command for keyboard E was issued all the same
C9_Witness ==
    /\ Completed /\ last.path = "restore" /\ failed = {"D"}
    /\ active["D"] # Some(state[last.key]["D"])
    /\ CopiesIn(SwitchText("E", state[last.key]["E"]), cmds) = 1
    /\ prev_id = Some(last.key)

\* C10: after every on_focus(k) that returns, the focused key is k.
C10_FocusedKeyIsNew == Completed => prev_id = Some(last.key)

\* an on_focus for the key that was already focused, in which a command failed
C10_Witness ==
    /\ Completed /\ last.was = "cur" /\ failed # {} /\ prev_id = Some(last.key)


\* ---------------------------------------------------------------- C11
\* the key the claim describes for window w shown as win = [app_id, name]
ExpectedKey(w, win) ==
    IF win.app_id # None /\ (\E i \in 1..Len(tabbed) : tabbed[i] = win.app_id[1]) /\ win.name # None
    THEN to_string(w) \o win.name[1]
    ELSE to_string(w)
\* the events of a step, read off the compositor: w gained focus, w's title changed,
\* w closed
FocusOf(w) == focused' = Some(w) /\ focused # Some(w)
TitleOf(w) == IsSome(wins[w]) /\ IsSome(wins'[w]) /\ wins'[w] # wins[w]
CloseOf(w) == IsSome(wins[w]) /\ wins'[w] = None /\ pc' = "loop"

\* C11: derive_key.  The key handed to on_focus or on_close for an event about window
\* w is the id of w as text, followed by the title exactly when the application id is
\* present, is in the tabbed list and a title is present; otherwise it is the id text.
C11_DeriveKey ==
    [][\A w \in WinIds :
          /\ FocusOf(w) => last'.key = ExpectedKey(w, Unwrap(wins[w]))
          /\ TitleOf(w) => last'.key = ExpectedKey(w, Unwrap(wins'[w]))
          /\ CloseOf(w) => last'.key = ExpectedKey(w, Unwrap(wins[w]))]_vars

\* window 12 has a title and no application id and was focused under the key "12";
\* before it, window 1 of the tabbed app, without a title, was focused under "1"
C11_Witness ==
    /\ Completed /\ focused = Some(12) /\ last.key = <<"1", "2">>
    /\ IsSome(wins[12]) /\ Unwrap(wins[12]).app_id = None /\ IsSome(Unwrap(wins[12]).name)
    /\ IsSome(wins[1]) /\ Unwrap(wins[1]).app_id = Some("ff") /\ Unwrap(wins[1]).name = None
    /\ <<"1">> \in DOMAIN state


\* ---------------------------------------------------------------- C12
\* C12: on_close(k) issues no command and asks the compositor nothing (so it cannot
\* fail on a device query); every device keeps its active layout and every cache
\* entry other than k's is unchanged.
C12_CloseIssuesNothing ==
    [][last'.op = "on_close"
          => /\ cmds' = EmptyBag /\ failed' = {}
             /\ active' = active
             /\ pc' = "loop"
             /\ \A j \in Keys \ {last'.key} :
                   /\ j \in DOMAIN state' <=> j \in DOMAIN state
                   /\ j \in DOMAIN state => state'[j] = state[j]]_vars

\* a window with a cache entry closed while a default layout is configured, keyboard
\* D is at a layout other than the default one, and another key has an entry
C12_Witness ==
    /\ last.op = "on_close" /\ last.was = "departed" /\ pc = "loop"
    /\ default_lang = Some("us") /\ active["D"] = Some(2)
    /\ \E j \in DOMAIN state : state[j]["D"] = 0


\* ---------------------------------------------------------------- C13
NewOf(w) == ~IsSome(wins[w]) /\ IsSome(wins'[w])      \* window w opened in this step

\* C13: event dispatch.  An event of any other kind (a window opening, or a change the
\* compositor state does not show) leaves the cache and the focused key unchanged
\* and issues no command; a focus gain and a title change run on_focus with the key
\* derived from the event's container, a close runs on_close with it.
C13_Dispatch ==
    [][/\ \A w \in WinIds :
             /\ NewOf(w) => last'.op = "ignored"
             /\ FocusOf(w) => /\ last'.op = "on_focus"
                              /\ prev_id' = Some(make_map_key(Container(w, Unwrap(wins[w]))))
             /\ TitleOf(w) => /\ last'.op = "on_focus"
                              /\ prev_id' = Some(make_map_key(Container(w, Unwrap(wins'[w]))))
             /\ CloseOf(w) =>
                   LET key == make_map_key(Container(w, Unwrap(wins[w]))) IN
                   /\ last'.op = "on_close" /\ last'.key = key
                   /\ key \notin DOMAIN state'
                   /\ prev_id' = IF prev_id = Some(key) THEN None ELSE prev_id
       /\ last'.op = "ignored"
             => /\ state' = state /\ prev_id' = prev_id
                /\ cmds' = EmptyBag /\ pc' = "loop"]_vars

\* the state an ignored event leaves: window 12 is open and was never focused, while
\* window 1 is focused and a default layout is configured
C13_Witness ==
    /\ last.op = "ignored" /\ pc = "loop" /\ cmds = EmptyBag
    /\ IsSome(wins[12]) /\ hist[<<"1", "2">>].tag = "never"
    /\ focused = Some(1) /\ prev_id = Some(<<"1">>) /\ active["D"] = Some(1)
    /\ default_lang = Some("us")


\* ---------------------------------------------------------------- C14
\* C14: a snapshot is complete or the process is dead.  An on_focus that panics has
\* issued no command and has not moved the focused key, and the cache is as it was
\* or holds, under the previous key, the snapshot of every keyboard; an on_focus that
\* returns has stored under the previous key an index for each keyboard and for no
\* other device (the pointer, which reports no index, is passed over).
C14_SnapshotOrFatal ==
    [][/\ (last'.op = "on_focus" /\ pc' = "panic")
             => /\ cmds' = EmptyBag
                /\ prev_id' = prev_id
                /\ state' = state \/ state' = Save(prev_id, state, active)
       /\ (last'.op = "on_focus" /\ pc' = "loop" /\ IsSome(prev_id))
             => DOMAIN state'[Unwrap(prev_id)] = Keyboards
       /\ \A k \in DOMAIN state' : \A d \in DOMAIN state'[k] : d \in Keyboards]_vars

\* on_focus died while taking the snapshot: a key other than the event's was focused
\* and nothing is stored under it, while other keys have entries
C14_Witness ==
    /\ last.op = "on_focus" /\ pc = "panic"
    /\ IsSome(prev_id) /\ prev_id # Some(last.key)
    /\ Unwrap(prev_id) \notin DOMAIN state /\ DOMAIN state # {}
    /\ cmds = EmptyBag


\* ---------------------------------------------------------------- C15
\* C15: the event loop never stops by a normal exit: once it has stopped, the process
\* has aborted.
C15_StopIsFatal == pc # "loop" => pc = "panic"


\* ---------------------------------------------------------------- C16
\* C16 as stated: an entry left under the old key by a title change is never evicted
\* while the process runs.
C16_OrphanNeverEvicted ==
    [][\A k \in Tracked : pc' = "loop" => k \in DOMAIN state']_vars

\* C16, amended: an entry left under the old key by a title change is evicted only by
\* the close of a window whose key at that moment is the old key; the close of any
\* other window, and of the same window under another title, leaves it.
C16_OrphanKeptUntilRederived ==
    [][\A k \in Tracked :
          (pc' = "loop" /\ k \notin DOMAIN state')
             => \E w \in WinIds : CloseOf(w) /\ make_map_key(Container(w, Unwrap(wins[w]))) = k]_vars

\* the title of the tabbed window changed and left an entry under the old key "1";
\* every window has closed since and the entry is still in the cache
C16_Witness ==
    /\ pc = "loop" /\ last.op = "on_close" /\ last.key = <<"1", "2">>
    /\ wins = NoWins
    /\ <<"1">> \in Tracked /\ <<"1">> \in DOMAIN state


\* ---------------------------------------------------------------- C17
\* C17: the default fallback sends commands to keyboards only: when on_focus found no
\* entry, every command it issued names a device of type keyboard.
C17_DefaultKeyboardsOnly ==
    (Completed /\ last.path = "default") => \A c \in BagToSet(cmds) : c[2] \in Keyboards


\* ---------------------------------------------------------------- C18
\* the example: a window never seen before has just been focused, no entry existed for
\* it, and the default layout name is "us" (D lists "de", "us", "fr"; E lists "de")
NeverSeenDefaultUs ==
    Completed /\ last.path = "default" /\ last.was = "never" /\ default_lang = Some("us")
CmdsTo(d) == {c \in BagToSet(cmds) : c[2] = d}

\* C18 as stated: exactly one command goes to D and it switches D to index 2; E gets
\* no command.
C18_ExampleIndexTwo ==
    NeverSeenDefaultUs
       => /\ CmdsTo("D") = {SwitchText("D", 2)} /\ CopiesIn(SwitchText("D", 2), cmds) = 1
          /\ CmdsTo("E") = {}

\* C18, amended: exactly one command goes to D and it switches D to index 1, the
\* position of "us" counted from 0; E gets no command.
C18_ExampleIndexOne ==
    NeverSeenDefaultUs
       => /\ CmdsTo("D") = {SwitchText("D", 1)} /\ CopiesIn(SwitchText("D", 1), cmds) = 1
          /\ CmdsTo("E") = {}

\* the example has happened for window 12, the command succeeded and D is at "us"
C18_Witness ==
    /\ NeverSeenDefaultUs /\ focused = Some(12) /\ failed = {}
    /\ active["D"] = Some(1) /\ active["E"] = Some(0)
    /\ state = <<>>


\* ---------------------------------------------------------------- C19
\* the key of the window w2 as the windows win show it
KeyOf(win, w2) == make_map_key(Container(w2, Unwrap(win[w2])))

\* C19: focus tracking is faithful: after every focus or title-change event that
\* on_focus has processed, if a window holds the input focus then the tracked key
\* prev_id is the key of that window.
C19_FocusFaithful ==
    [][(last'.op = "on_focus" /\ pc' = "loop" /\ IsSome(focused'))
          => prev_id' = Some(KeyOf(wins', Unwrap(focused')))]_vars


\* ---------------------------------------------------------------- C20
\* a title change of window w arrives while the tracked key is the key of w
TitleOfTracked(w) == TitleOf(w) /\ prev_id = Some(KeyOf(wins, w))

\* C20 as stated: a title change of the window that is the tracked focus leaves the
\* active layout of every keyboard unchanged.
C20_TitleKeepsLayouts ==
    [][\A w \in WinIds :
          TitleOfTracked(w) => \A d \in Keyboards : active'[d] = active[d]]_vars

\* C20, amended: when the title change does not change the key of the window (its
\* application is not tabbed), on_focus issues one command per keyboard, each to the
\* index the keyboard already has, and no layout changes.
C20_SameKeyKeepsLayouts ==
    [][\A w \in WinIds :
          (TitleOfTracked(w) /\ KeyOf(wins', w) = KeyOf(wins, w))
             => /\ cmds' = OnceEach({SwitchText(d, Unwrap(active[d])) : d \in Keyboards})
                /\ active' = active]_vars

\* window 12 (not tabbed) is the only window and holds the focus; its title changed
\* while a default layout is configured and keyboard D is at another layout, which it
\* still has
C20_Witness ==
    /\ Completed /\ last.was = "cur" /\ last.key = <<"1", "2">> /\ failed = {}
    /\ focused = Some(12) /\ wins[1] = None /\ prev_id = Some(<<"1", "2">>)
    /\ default_lang = Some("us") /\ active["D"] = Some(2)
    /\ cmds = OnceEach({SwitchText("D", 2), SwitchText("E", 0)})

====
